---- MODULE Spec2Model ----
(***************************************************************************)
(* Word-level model of heapAlloc.c: a next-fit heap allocator with         *)
(* immediate coalescing over one mmap'ed region.                           *)
(*                                                                         *)
(* Pointers are absolute byte addresses (NULL is 0).  mem maps every       *)
(* 4-byte word of the mapping to the int stored there.  The caller never   *)
(* writes into a payload, so a payload word keeps whatever the allocator   *)
(* (or the zero-filled mapping) left in it.                                *)
(*                                                                         *)
(* allocHeap and freeHeap are called only after a successful initHeap, as  *)
(* the interface requires.  lastCall, live, released and calls record the  *)
(* caller's side: the last call with its argument and the value of its     *)
(* return statement, the addresses handed out and not yet released, the    *)
(* addresses released since the last successful allocHeap, and the number  *)
(* of calls made.  memBefore is the memory as it was before the last call  *)
(* when that call was an allocHeap that returned an address, and empty     *)
(* otherwise.                                                              *)
(*                                                                         *)
(* A call that never returns (dumpMem walking in a cycle, or a crash on an *)
(* access outside the mapping) sets halted; no call is made after it.      *)
(* An access outside the mapping is undefined behaviour: the call either   *)
(* crashes, or goes on with the read yielding some word of OobVals and the *)
(* write not touching the mapping.                                         *)
(***************************************************************************)
EXTENDS Integers, FiniteSets, Sequences, TLC

\* ---------------------------------------------------------------- bounds
\* getpagesize() is 8 * PageUnits bytes
PageUnits == 3
\* calls a run makes, initHeap included
MaxCalls == 7
\* requests are drawn from -1 .. MaxReq (those that are not positive, the
\* multiples of 8 and the sizes one above them), the capacity and one more
MaxReq == 17

\* ------------------------------------------------------- program constants
NULL == 0
\* search loop gives up after this many iterations (counter > 5)
MaxSearch == 5

pagesize == 8 * PageUnits

\* address the operating system maps the region at (page aligned)
MmapBase == 4 * pagesize

\* words an out-of-mapping read may yield
OobVals == {0, 1}

VARIABLES heapStart, allocsize, lastAllocMade, allocated_once, mem,
          halted, lastCall, live, released, calls, memBefore

vars == <<heapStart, allocsize, lastAllocMade, allocated_once, mem,
          halted, lastCall, live, released, calls, memBefore>>

\* ------------------------------------------------------------ C arithmetic
\* C integer division truncates toward zero
CDiv(a, b) == IF a >= 0 THEN a \div b ELSE -((-a) \div b)

\* C remainder has the sign of the dividend
CMod(a, b) == a - b * CDiv(a, b)

\* (size_status / 8) * 8
SizeOf(x) == CDiv(x, 8) * 8

\* size_status & 1 on a two's complement int
Bit0(x) == x % 2

\* size_status & 2 on a two's complement int
Bit1(x) == ((x \div 2) % 2) * 2

\* ------------------------------------------------------------------ memory
InMap(m, a) == a \in DOMAIN m

Rd(m, a, oobv) == IF InMap(m, a) THEN m[a] ELSE oobv

Wr(m, a, v) == IF InMap(m, a) THEN [m EXCEPT ![a] = v] ELSE m

\* the words of a mapping of total bytes at MmapBase
MapAddrs(total) == {a \in MmapBase .. (MmapBase + total - 4) : a % 4 = 0}

memoryEnd == heapStart + allocsize

\* ----------------------------------------------------------------- dumpMem
\* The block-table walk: "done" when it reads the end mark, "loop" when it
\* comes back to a word it has already printed (it then prints forever),
\* "oob" when it leaves the mapping.
RECURSIVE dumpWalk(_, _, _)
dumpWalk(m, current, seen) ==
    IF ~InMap(m, current) THEN "oob"
    ELSE IF m[current] = 1 THEN "done"
    ELSE IF current \in seen THEN "loop"
    ELSE LET t0 == m[current]
             t1 == IF Bit0(t0) # 0 THEN t0 - 1 ELSE t0
             t_size == IF Bit1(t1) # 0 THEN t1 - 2 ELSE t1
         IN dumpWalk(m, current + t_size, seen \cup {current})

dumpMem(m, hs) == dumpWalk(m, hs, {})

\* --------------------------------------------------------------- allocHeap
\* size rounded up to a multiple of 8
PaddedSize(size) ==
    LET remainder == CMod(size, 8)
        padding == 8 - remainder
    IN IF remainder # 0 THEN size + padding ELSE size

\* The search loop, from currentAllocatedBlock = cur with counter iterations
\* done. found: the loop exited on a free block that is large enough.
RECURSIVE Search(_, _, _, _, _, _)
Search(m, cur, counter, paddedSize, memEnd, oobv) ==
    LET v == Rd(m, cur, oobv)
        ub == ~InMap(m, cur)
    IN IF Bit0(v) # 0 \/ SizeOf(v) < paddedSize
       THEN IF counter + 1 > MaxSearch
            THEN [found |-> FALSE, cur |-> cur, ub |-> ub]
            ELSE LET takenSize == SizeOf(v)
                     nxt == cur + takenSize
                 IN IF nxt + takenSize > memEnd
                    THEN [found |-> FALSE, cur |-> nxt, ub |-> ub]
                    ELSE LET r == Search(m, nxt, counter + 1, paddedSize,
                                         memEnd, oobv)
                         IN [r EXCEPT !.ub = r.ub \/ ub]
       ELSE [found |-> TRUE, cur |-> cur, ub |-> ub]

\* Split of the free block found by the search: footer, header of the
\* remainder, header of the allocated block, in the order of the code.
Split(m, freeBlock, paddedSize, oobv) ==
    LET freeSize == SizeOf(Rd(m, freeBlock, oobv))
        footer == freeBlock + freeSize - 4
        m1 == Wr(m, footer, freeSize - paddedSize)
        newFreeHeader == freeBlock + paddedSize
        m2 == Wr(m1, newFreeHeader, Rd(m1, freeBlock, oobv) - paddedSize)
        m3 == Wr(m2, freeBlock, paddedSize + 3)
    IN [mem |-> m3,
        ub |-> ~InMap(m, freeBlock) \/ ~InMap(m, footer)
               \/ ~InMap(m, newFreeHeader)]

\* a scale-factor slip: freeBlock + 4 taken in blockHeader units
PayloadScaled(freeBlock) == freeBlock + 4 * 4

\* the address handed to the caller: return ((void*)freeBlock) + 4
Payload(freeBlock) == freeBlock + 4

\* where the search starts: the cursor, or the first block while the cursor
\* is still NULL
CursorOrStart(lam, hs) == IF lam = NULL THEN hs ELSE lam

\* the cursor left at the block where the failed search stopped
FailedCursorMoved(lam1, cur) == cur

\* the cursor after a search that returns NULL: lastAllocMade is not assigned
FailedCursor(lam1, cur) == lam1

\* allocHeap(size) on memory m: the memory and cursor it leaves, the value
\* it returns, whether it made an access outside the mapping, and whether
\* it called dumpMem before returning.
allocHeap(m, hs, asz, lam, size, oobv) ==
    IF size < 0 \/ size > asz
    THEN [mem |-> m, lastAllocMade |-> lam, ret |-> NULL, ub |-> FALSE,
          dump |-> FALSE]
    ELSE LET lam1 == CursorOrStart(lam, hs)
             paddedSize == PaddedSize(size)
             s == Search(m, lam1, 0, paddedSize, hs + asz, oobv)
         IN IF ~s.found
            THEN [mem |-> m, lastAllocMade |-> FailedCursor(lam1, s.cur),
                  ret |-> NULL, ub |-> s.ub, dump |-> FALSE]
            ELSE IF Bit0(Rd(m, s.cur, oobv)) = 0
            THEN LET sp == Split(m, s.cur, paddedSize, oobv)
                 IN [mem |-> sp.mem, lastAllocMade |-> s.cur,
                     ret |-> Payload(s.cur), ub |-> s.ub \/ sp.ub, dump |-> TRUE]
            ELSE [mem |-> m, lastAllocMade |-> lam1, ret |-> NULL,
                  ub |-> s.ub, dump |-> TRUE]

\* ---------------------------------------------------------------- freeHeap
\* next block allocated: the footer is written, the next header is left
\* as it was
MarkNextKeepsPBit(m, ptr, sizeOfNewFreeBlock, nextBlockHeader, oobv) ==
    IF CMod(CMod(Rd(m, nextBlockHeader, oobv), 8), 2) = 1
    THEN LET newFreeBlockFooter == ptr + sizeOfNewFreeBlock - 8
             m1 == Wr(m, newFreeBlockFooter, sizeOfNewFreeBlock)
         IN [mem |-> m1, ub |-> ~InMap(m, newFreeBlockFooter)]
    ELSE [mem |-> m, ub |-> FALSE]

\* next block allocated: write the footer of the released block and clear
\* the p bit of the next header
MarkNext(m, ptr, sizeOfNewFreeBlock, nextBlockHeader, oobv) ==
    IF CMod(CMod(Rd(m, nextBlockHeader, oobv), 8), 2) = 1
    THEN LET newFreeBlockFooter == ptr + sizeOfNewFreeBlock - 8
             m1 == Wr(m, newFreeBlockFooter, sizeOfNewFreeBlock)
             m2 == Wr(m1, nextBlockHeader,
                      Rd(m1, nextBlockHeader, oobv) - 2)
         IN [mem |-> m2, ub |-> ~InMap(m, newFreeBlockFooter)]
    ELSE [mem |-> m, ub |-> FALSE]

\* next block free: coalesce with it
CoalesceNext(m, freeBlockHeader, sizeOfNewFreeBlock, nextBlockHeader, oobv) ==
    IF CMod(CMod(Rd(m, nextBlockHeader, oobv), 8), 2) = 0
    THEN LET nextBlockFooter ==
                 nextBlockHeader + SizeOf(Rd(m, nextBlockHeader, oobv)) - 4
             m1 == Wr(m, nextBlockFooter,
                      Rd(m, nextBlockFooter, oobv) + sizeOfNewFreeBlock - 4)
             m2 == Wr(m1, nextBlockHeader,
                      SizeOf(Rd(m1, nextBlockHeader, oobv)))
             m3 == Wr(m2, freeBlockHeader,
                      SizeOf(Rd(m2, nextBlockFooter, oobv))
                      + Rd(m2, freeBlockHeader, oobv))
         IN [mem |-> m3, ub |-> ~InMap(m, nextBlockFooter)]
    ELSE [mem |-> m, ub |-> FALSE]

\* previous block free (p bit clear): add the size to the word the
\* previous footer leads to
CoalescePrev(m, freeBlockHeader, oobv) ==
    IF CMod(Rd(m, freeBlockHeader, oobv), 8) < 2
    THEN LET previousFooter == freeBlockHeader - 4
             previousHeader == previousFooter - Rd(m, previousFooter, oobv)
             m1 == Wr(m, previousHeader,
                      Rd(m, previousHeader, oobv)
                      + SizeOf(Rd(m, freeBlockHeader, oobv)))
         IN [mem |-> m1,
             ub |-> ~InMap(m, previousFooter) \/ ~InMap(m, previousHeader)]
    ELSE [mem |-> m, ub |-> FALSE]

\* the validation without the already-freed test
RejectsNoFreedTest(m, hs, asz, ptr, oobv) ==
    \/ ptr = NULL
    \/ CMod(ptr, 8) # 0
    \/ ptr < hs
    \/ ptr > hs + asz

\* the validation of freeHeap: the cases that return -1
Rejects(m, hs, asz, ptr, oobv) ==
    \/ ptr = NULL
    \/ CMod(ptr, 8) # 0
    \/ ptr < hs
    \/ ptr > hs + asz
    \/ Bit0(Rd(m, ptr - 4, oobv)) = 0

\* freeHeap(ptr) on memory m
freeHeap(m, hs, asz, ptr, oobv) ==
    IF Rejects(m, hs, asz, ptr, oobv)
    THEN [mem |-> m, ret |-> -1, ub |-> FALSE, dump |-> FALSE]
    ELSE LET freeBlockHeader == ptr - 4
             sizeOfNewFreeBlock == SizeOf(Rd(m, freeBlockHeader, oobv))
             nextBlockHeader == ptr + sizeOfNewFreeBlock - 4
             a == MarkNext(m, ptr, sizeOfNewFreeBlock, nextBlockHeader, oobv)
             b == CoalesceNext(a.mem, freeBlockHeader, sizeOfNewFreeBlock,
                               nextBlockHeader, oobv)
             c == CoalescePrev(b.mem, freeBlockHeader, oobv)
             m4 == Wr(c.mem, freeBlockHeader,
                      Rd(c.mem, freeBlockHeader, oobv) - 1)
         IN [mem |-> m4, ret |-> 0,
             ub |-> ~InMap(m, nextBlockHeader) \/ a.ub \/ b.ub \/ c.ub,
             dump |-> TRUE]

\* ---------------------------------------------------------------- initHeap
\* The mapping after a successful initHeap: zero filled, then the end mark,
\* the header and the footer of the one free block.
InitialMem(total) ==
    LET hs == MmapBase + 4
        asz == total - 8
        endMark == hs + asz
        footer == hs + asz - 4
        z == [a \in MapAddrs(total) |-> 0]
        m1 == Wr(z, endMark, 1)
        m2 == Wr(m1, hs, asz + 2)
    IN Wr(m2, footer, asz)

\* the padding without its final % pagesize: a whole page too many for a
\* size that is already a multiple of the page size
PaddedRegionNoMod(sizeOfRegion) ==
    sizeOfRegion + (pagesize - (sizeOfRegion % pagesize))

\* sizeOfRegion padded to a multiple of the page size
PaddedRegion(sizeOfRegion) ==
    LET padsize == (pagesize - (sizeOfRegion % pagesize)) % pagesize
    IN sizeOfRegion + padsize

\* --------------------------------------------------------------- the calls
RegionSizes == {-1, 0, 1, pagesize, pagesize + 1}

OsOutcomes == {"ok", "open_fails", "mmap_fails"}

ReqSizes ==
    {n \in -1 .. MaxReq : n <= 1 \/ n % 8 <= 1}
    \cup {allocsize, allocsize + 1}

\* addresses a caller passes to freeHeap: NULL, what allocHeap returned and
\* not yet released, what was released, the word after each of those
\* (misaligned), the base of the mapping and an aligned address above it
FreePtrs ==
    LET known == live \cup released
    IN {NULL, MmapBase, heapStart, memoryEnd + 12} \cup known
       \cup {p + 4 : p \in known}

\* no snapshot of the memory is kept
NoMem == [a \in {} |-> 0]

\* every call counts
Called ==
    /\ calls < MaxCalls
    /\ calls' = calls + 1

Init ==
    /\ heapStart = NULL
    /\ allocsize = 0
    /\ lastAllocMade = NULL
    /\ allocated_once = 0
    /\ mem = [a \in {} |-> 0]
    /\ halted = FALSE
    /\ lastCall = [op |-> "none", arg |-> 0, ret |-> 0]
    /\ live = {}
    /\ released = {}
    /\ calls = 0
    /\ memBefore = NoMem

InitHeap(sizeOfRegion, os) ==
    /\ ~halted
    /\ Called
    /\ lastCall' = [op |-> "initHeap", arg |-> sizeOfRegion,
                    ret |-> IF allocated_once = 0 /\ sizeOfRegion > 0
                               /\ os = "ok" THEN 0 ELSE -1]
    /\ IF allocated_once # 0 \/ sizeOfRegion <= 0
       THEN UNCHANGED <<heapStart, allocsize, allocated_once, mem>>
       ELSE IF os = "open_fails"
       THEN /\ allocsize' = PaddedRegion(sizeOfRegion)
            /\ UNCHANGED <<heapStart, allocated_once, mem>>
       ELSE IF os = "mmap_fails"
       THEN /\ allocsize' = PaddedRegion(sizeOfRegion)
            /\ allocated_once' = 0
            /\ UNCHANGED <<heapStart, mem>>
       ELSE /\ allocated_once' = 1
            /\ allocsize' = PaddedRegion(sizeOfRegion) - 8
            /\ heapStart' = MmapBase + 4
            /\ mem' = InitialMem(PaddedRegion(sizeOfRegion))
    /\ memBefore' = NoMem
    /\ UNCHANGED <<lastAllocMade, halted, live, released>>

\* how a call that ran dumpMem, or left the mapping, can end
CanReturn(r) == ~r.dump \/ dumpMem(r.mem, heapStart) # "loop"

CanHalt(r) == r.ub \/ (r.dump /\ dumpMem(r.mem, heapStart) # "done")

AllocHeap(size) ==
    /\ ~halted
    /\ Called
    /\ heapStart # NULL
    /\ \E oobv \in OobVals :
         LET r == allocHeap(mem, heapStart, allocsize, lastAllocMade, size,
                            oobv)
         IN /\ mem' = r.mem
            /\ lastAllocMade' = r.lastAllocMade
            /\ lastCall' = [op |-> "allocHeap", arg |-> size, ret |-> r.ret]
            /\ \/ /\ CanReturn(r)
                  /\ halted' = FALSE
                  /\ live' = IF r.ret # NULL THEN live \cup {r.ret} ELSE live
                  /\ released' = IF r.ret # NULL THEN {} ELSE released
                  /\ memBefore' = IF r.ret # NULL THEN mem ELSE NoMem
               \/ /\ CanHalt(r)
                  /\ halted' = TRUE
                  /\ memBefore' = NoMem
                  /\ UNCHANGED <<live, released>>
    /\ UNCHANGED <<heapStart, allocsize, allocated_once>>

FreeHeap(ptr) ==
    /\ ~halted
    /\ Called
    /\ heapStart # NULL
    /\ \E oobv \in OobVals :
         LET r == freeHeap(mem, heapStart, allocsize, ptr, oobv)
         IN /\ mem' = r.mem
            /\ lastCall' = [op |-> "freeHeap", arg |-> ptr, ret |-> r.ret]
            /\ \/ /\ CanReturn(r)
                  /\ halted' = FALSE
                  /\ live' = IF r.ret = 0 THEN live \ {ptr} ELSE live
                  /\ released' = IF r.ret = 0 THEN released \cup {ptr}
                                 ELSE released
                  /\ memBefore' = NoMem
               \/ /\ CanHalt(r)
                  /\ halted' = TRUE
                  /\ memBefore' = NoMem
                  /\ UNCHANGED <<live, released>>
    /\ UNCHANGED <<heapStart, allocsize, lastAllocMade, allocated_once>>

Next ==
    \/ \E sizeOfRegion \in RegionSizes, os \in OsOutcomes :
         InitHeap(sizeOfRegion, os)
    \/ \E size \in ReqSizes : AllocHeap(size)
    \/ \E ptr \in FreePtrs : FreeHeap(ptr)

Spec == Init /\ [][Next]_vars

TypeOK ==
    /\ halted \in BOOLEAN
    /\ allocated_once \in {0, 1}
    /\ calls \in 0 .. MaxCalls

\* ------------------------------------------------------ reading the region
\* a call has returned and the heap is initialised
Ready == heapStart # NULL /\ ~halted

\* a header with its two status bits removed
HdrSize(x) == x - (x % 4)

IsAlloc(a) == Bit0(mem[a]) = 1

IsFree(a) == Bit0(mem[a]) = 0

PrevAlloc(a) == Bit1(mem[a]) = 2

\* the headers met walking from a by the size stored in each header, up to
\* the end of the usable region or the first header without a positive size
RECURSIVE Chain(_)
Chain(a) ==
    IF ~InMap(mem, a) \/ a >= memoryEnd \/ HdrSize(mem[a]) <= 0
    THEN << >>
    ELSE <<a>> \o Chain(a + HdrSize(mem[a]))

Blocks == Chain(heapStart)

BlockEnd(a) == a + HdrSize(mem[a])

Tiles ==
    /\ Len(Blocks) >= 1
    /\ \A i \in 1 .. Len(Blocks) : HdrSize(mem[Blocks[i]]) % 8 = 0
    /\ BlockEnd(Blocks[Len(Blocks)]) = memoryEnd
    /\ mem[memoryEnd] = 1

\* ------------------------------------------------------------------ claims
\* C1: after a successful init and any sequence of allocate and release
\* calls, the blocks walked from the region start tile the usable region
\* exactly, every size a positive multiple of 8, and the walk ends on the
\* end mark, which still holds 1.
C1_Tiling == Ready => Tiles

\* C2: after any sequence of allocate and release calls no two blocks
\* adjacent in address order are both free.
C2_NoAdjacentFree ==
    Ready => \A i \in 1 .. Len(Blocks) - 1 :
                 ~(IsFree(Blocks[i]) /\ IsFree(Blocks[i + 1]))

\* C3: the prev-allocated bit of every block equals the allocated bit of
\* the block before it, and is 1 for the first block.
C3_PrevBits ==
    Ready => \A i \in 1 .. Len(Blocks) :
                 PrevAlloc(Blocks[i])
                     <=> (i = 1 \/ IsAlloc(Blocks[i - 1]))

\* C4: every free block's footer holds the size stored in its header with
\* the status bits removed.
C4_Footers ==
    Ready => \A i \in 1 .. Len(Blocks) :
                 IsFree(Blocks[i]) =>
                     /\ InMap(mem, BlockEnd(Blocks[i]) - 4)
                     /\ mem[BlockEnd(Blocks[i]) - 4] = HdrSize(mem[Blocks[i]])

\* the call a step makes
AllocStep == lastCall'.op = "allocHeap" /\ calls' = calls + 1

FreeStep == lastCall'.op = "freeHeap" /\ calls' = calls + 1

\* C5: an address returned by allocate and not yet released is accepted by
\* release (returns 0), and a second release of it with no allocate in
\* between returns -1.
C5_RoundTrip ==
    [][FreeStep =>
         /\ lastCall'.arg \in live => (~halted' /\ lastCall'.ret = 0)
         /\ lastCall'.arg \in released \ live =>
                (~halted' /\ lastCall'.ret = -1)]_vars

\* some free block of the region is large enough for a block of n bytes
SomeFreeFits(n) ==
    \E i \in 1 .. Len(Blocks) :
        IsFree(Blocks[i]) /\ HdrSize(mem[Blocks[i]]) >= n

\* C6: allocate succeeds whenever some free block anywhere in the region is
\* large enough, and returns null for lack of space only when none is.
\* The required block size is taken as the code computes it (paddedSize).
C6_WholeRegion ==
    [][(/\ AllocStep
        /\ lastCall'.arg > 0 /\ lastCall'.arg <= allocsize
        /\ ~halted') =>
         (lastCall'.ret # NULL <=> SomeFreeFits(PaddedSize(lastCall'.arg)))
      ]_vars

\* C7: allocate of a size <= 0 or above the usable capacity returns null
\* and leaves the region unchanged.
C7_RejectsBadSize ==
    [][(AllocStep /\ (lastCall'.arg <= 0 \/ lastCall'.arg > allocsize)) =>
         /\ ~halted'
         /\ lastCall'.ret = NULL
         /\ mem' = mem]_vars

\* the block the search of allocate(size) selects in the current state
Selected(size) ==
    Search(mem, IF lastAllocMade = NULL THEN heapStart ELSE lastAllocMade,
           0, PaddedSize(size), memoryEnd, 0)

\* C8: when allocate selects a free block of exactly the required size, the
\* whole block becomes allocated and the header that follows is not
\* overwritten, except that a following block's prev-allocated bit becomes
\* 1; the end mark keeps the value 1.
C8_ExactFit ==
    [][(/\ AllocStep
        /\ lastCall'.arg > 0 /\ lastCall'.arg <= allocsize
        /\ Selected(lastCall'.arg).found
        /\ SizeOf(mem[Selected(lastCall'.arg).cur])
               = PaddedSize(lastCall'.arg)) =>
         LET freeBlock == Selected(lastCall'.arg).cur
             following == freeBlock + PaddedSize(lastCall'.arg)
         IN /\ Bit0(mem'[freeBlock]) = 1
            /\ HdrSize(mem'[freeBlock]) = PaddedSize(lastCall'.arg)
            /\ mem'[following] =
                   IF following = memoryEnd THEN 1
                   ELSE HdrSize(mem[following]) + Bit0(mem[following]) + 2
            /\ mem'[memoryEnd] = 1]_vars

\* C9: every address a successful allocate returns is a multiple of 8.
C9_Aligned ==
    (Ready /\ lastCall.op = "allocHeap" /\ lastCall.ret # NULL)
        => lastCall.ret % 8 = 0

\* an allocate served after an earlier release, from a block that is not
\* the first of the region
C9_Witness ==
    /\ Ready
    /\ lastCall.op = "allocHeap"
    /\ lastCall.ret # NULL
    /\ lastCall.ret > heapStart + 4
    /\ \E i \in 1 .. Len(Blocks) : IsFree(Blocks[i]) /\ Blocks[i] < lastCall.ret

\* the addresses release must refuse
BadPtr(ptr) ==
    \/ ptr = NULL
    \/ ptr % 8 # 0
    \/ ptr < heapStart
    \/ ptr >= memoryEnd
    \/ IsFree(ptr - 4)

RECURSIVE ChainOf(_, _)
ChainOf(m, a) ==
    IF ~InMap(m, a) \/ a >= memoryEnd \/ HdrSize(m[a]) <= 0
    THEN << >>
    ELSE <<a>> \o ChainOf(m, a + HdrSize(m[a]))

BlocksOf(m) == ChainOf(m, heapStart)

\* the word in the last 4 bytes of the block at a
FooterOf(m, a) == Rd(m, a + HdrSize(m[a]) - 4, -1)

\* the data-model invariants, on memory m: the blocks tile the region up to
\* the end mark, p bits tell the predecessor's state, no two neighbours are
\* free, free blocks carry their size in the footer
WellFormed(m) ==
    LET b == BlocksOf(m)
    IN /\ Len(b) >= 1
       /\ b[Len(b)] + HdrSize(m[b[Len(b)]]) = memoryEnd
       /\ m[memoryEnd] = 1
       /\ \A i \in 1 .. Len(b) :
            /\ HdrSize(m[b[i]]) % 8 = 0
            /\ (Bit1(m[b[i]]) = 2) <=> (i = 1 \/ Bit0(m[b[i - 1]]) = 1)
            /\ Bit0(m[b[i]]) = 0 => FooterOf(m, b[i]) = HdrSize(m[b[i]])
            /\ i > 1 => ~(Bit0(m[b[i]]) = 0 /\ Bit0(m[b[i - 1]]) = 0)

\* same block boundaries, sizes, status bits and free-block footers
SameBlocks(m1, m2) ==
    /\ BlocksOf(m1) = BlocksOf(m2)
    /\ m1[memoryEnd] = m2[memoryEnd]
    /\ \A i \in 1 .. Len(BlocksOf(m1)) :
         LET a == BlocksOf(m1)[i]
         IN /\ m1[a] = m2[a]
            /\ Bit0(m1[a]) = 0 => FooterOf(m1, a) = FooterOf(m2, a)

\* the step releases the address the previous call, an allocate, returned
FreeOfLastAlloc ==
    /\ FreeStep
    /\ ~halted
    /\ lastCall.op = "allocHeap"
    /\ lastCall.ret # NULL
    /\ lastCall'.arg = lastCall.ret

\* C11: from a heap that satisfies the data-model invariants, allocate
\* followed immediately by release of the returned address restores the
\* block sequence that existed before the allocate (boundaries, sizes,
\* status bits, footers).
C11_AllocFreeRestores ==
    [][(FreeOfLastAlloc /\ WellFormed(memBefore)) =>
         /\ ~halted'
         /\ lastCall'.ret = 0
         /\ SameBlocks(mem', memBefore)]_vars


\* C12: every allocate, release and dump call issued after a successful
\* init terminates: the block-table traversal the calls run never walks in
\* a cycle, in any heap state a call produces.
C12_CallsTerminate ==
    heapStart # NULL => dumpMem(mem, heapStart) # "loop"


InitStep == lastCall'.op = "initHeap" /\ calls' = calls + 1

\* C13: a failing init (second call, non-positive size, the operating
\* system refusing) returns -1 and leaves the region start, the recorded
\* region size, the cursor and the already-initialized flag unchanged.
C13_FailedInitNoChange ==
    [][(InitStep /\ lastCall'.ret # 0) =>
         /\ lastCall'.ret = -1
         /\ UNCHANGED <<heapStart, allocsize, lastAllocMade,
                        allocated_once>>]_vars


\* where the search of the next allocate starts
SearchStart == IF lastAllocMade = NULL THEN heapStart ELSE lastAllocMade

\* n bytes as a whole number of pages
WholePages(n) == ((n + pagesize - 1) \div pagesize) * pagesize

\* C14: a successful init(requestedBytes) leaves exactly one block: a free
\* block at the region start of size requestedBytes rounded up to whole
\* pages minus 8, prev-allocated bit 1, footer equal to the size, the end
\* mark (1) right after it; the next allocate searches from the region
\* start.
C14_InitOneBlock ==
    (lastCall.op = "initHeap" /\ lastCall.ret = 0) =>
        LET size == WholePages(lastCall.arg) - 8
        IN /\ heapStart = MmapBase + 4
           /\ allocsize = size
           /\ Blocks = <<heapStart>>
           /\ mem[heapStart] = size + 2
           /\ mem[heapStart + size - 4] = size
           /\ mem[heapStart + size] = 1
           /\ DOMAIN mem = MapAddrs(size + 8)
           /\ SearchStart = heapStart

\* init has succeeded on a size that is not a whole number of pages, after
\* an earlier init failed
C14_Witness ==
    /\ lastCall.op = "initHeap"
    /\ lastCall.ret = 0
    /\ lastCall.arg > pagesize
    /\ lastCall.arg % pagesize # 0
    /\ calls >= 2


\* C15: an allocate that returns null because the search found no block
\* leaves every header, footer, the end mark and the cursor unchanged, so
\* the heap serves every later request as it would have before.
C15_FailedSearchNoChange ==
    [][(/\ AllocStep
        /\ lastCall'.arg >= 0 /\ lastCall'.arg <= allocsize
        /\ ~halted'
        /\ lastCall'.ret = NULL) =>
         /\ mem' = mem
         /\ lastAllocMade' = lastAllocMade
         /\ \A n \in ReqSizes : Selected(n)' = Selected(n)]_vars

\* a search has failed although the request was within the capacity
C15_Witness ==
    /\ Ready
    /\ lastCall.op = "allocHeap"
    /\ lastCall.ret = NULL
    /\ lastCall.arg > 0 /\ lastCall.arg <= allocsize
    /\ lastAllocMade # NULL


\* the block before block a in the current sequence, NULL for the first
PrevBlock(a) ==
    LET before == {b \in DOMAIN mem : b \in {Blocks[i] : i \in DOMAIN Blocks}
                                      /\ BlockEnd(b) = a}
    IN IF before = {} THEN NULL ELSE CHOOSE b \in before : TRUE

\* block b is an allocated block of the sequence between two allocated blocks
BetweenAllocated(b) ==
    /\ b \in {Blocks[i] : i \in DOMAIN Blocks}
    /\ Tiles
    /\ IsAlloc(b)
    /\ PrevBlock(b) # NULL /\ IsAlloc(PrevBlock(b))
    /\ BlockEnd(b) < memoryEnd /\ IsAlloc(BlockEnd(b))

\* C16: releasing an allocated block whose predecessor and successor are
\* both allocated merges nothing: the block keeps its size and its p bit and
\* loses its a bit, its footer holds its size, the successor loses its p bit
\* and keeps the rest, and every other word is unchanged.
C16_ReleaseNoMerge ==
    [][(/\ FreeStep
        /\ Ready
        /\ BetweenAllocated(lastCall'.arg - 4)) =>
         LET b == lastCall'.arg - 4
             S == HdrSize(mem[b])
             next == b + S
         IN /\ lastCall'.ret = 0
            /\ mem'[b] = mem[b] - 1
            /\ mem'[b + S - 4] = S
            /\ mem'[next] = mem[next] - 2
            /\ Bit1(mem'[next]) = 0
            /\ \A a \in DOMAIN mem \ {b, b + S - 4, next} : mem'[a] = mem[a]]_vars

\* a block between two allocated blocks has been released
C16_Witness ==
    /\ Ready
    /\ lastCall.op = "freeHeap"
    /\ lastCall.ret = 0
    /\ memBefore = NoMem
    /\ LET b == lastCall.arg - 4
       IN /\ b \in {Blocks[i] : i \in DOMAIN Blocks}
          /\ IsFree(b)
          /\ BlockEnd(b) < memoryEnd
          /\ mem[b + HdrSize(mem[b]) - 4] = HdrSize(mem[b])
          /\ PrevBlock(b) # NULL /\ IsAlloc(PrevBlock(b))
          /\ IsAlloc(BlockEnd(b)) /\ ~PrevAlloc(BlockEnd(b))
          /\ PrevAlloc(b)


\* the blocks in the order of a scan that starts at the cursor and continues
\* from the first block after the last one; empty if the cursor is not the
\* header of a block
ScanOrder ==
    LET at == {i \in DOMAIN Blocks : Blocks[i] = SearchStart}
    IN IF at = {} THEN << >>
       ELSE LET k == CHOOSE i \in at : TRUE
            IN SubSeq(Blocks, k, Len(Blocks)) \o SubSeq(Blocks, 1, k - 1)

\* block a is free and at least as large as the padded request
Qualifies(a, n) == IsFree(a) /\ HdrSize(mem[a]) >= PaddedSize(n)

\* C17: whenever allocate succeeds, the block it allocates is the first
\* block in scan order from the cursor that was free and large enough; no
\* earlier block in that order qualified.
C17_FirstInScanOrder ==
    [][(AllocStep /\ ~halted' /\ lastCall'.arg > 0 /\ lastCall'.ret # NULL) =>
         LET chosen == lastCall'.ret - 4
             n == lastCall'.arg
         IN \E i \in DOMAIN ScanOrder :
              /\ ScanOrder[i] = chosen
              /\ Qualifies(chosen, n)
              /\ \A j \in 1 .. i - 1 : ~Qualifies(ScanOrder[j], n)
              /\ Bit0(mem'[chosen]) = 1
              /\ lastAllocMade' = chosen]_vars


\* block b is an allocated block of the sequence, after an allocated block
\* and before a free block whose footer holds its size
BeforeFree(b) ==
    /\ b \in {Blocks[i] : i \in DOMAIN Blocks}
    /\ Tiles
    /\ IsAlloc(b) /\ PrevAlloc(b)
    /\ PrevBlock(b) # NULL /\ IsAlloc(PrevBlock(b))
    /\ BlockEnd(b) < memoryEnd /\ IsFree(BlockEnd(b))
    /\ mem[BlockEnd(BlockEnd(b)) - 4] = HdrSize(mem[BlockEnd(b)])

\* C18: releasing an allocated block B whose successor F is free and whose
\* predecessor is allocated yields one free block at B's header of size
\* size(B) + size(F) that keeps B's p bit, and the footer at the tail of F
\* holds size(B) + size(F), for every size of B.
C18_ForwardMerge ==
    [][(/\ FreeStep
        /\ Ready /\ ~halted'
        /\ BeforeFree(lastCall'.arg - 4)) =>
         LET b == lastCall'.arg - 4
             S == HdrSize(mem[b])
             F == b + S
             SF == HdrSize(mem[F])
         IN /\ lastCall'.ret = 0
            /\ Bit0(mem'[b]) = 0
            /\ Bit1(mem'[b]) = Bit1(mem[b])
            /\ HdrSize(mem'[b]) = S + SF
            /\ mem'[F + SF - 4] = S + SF]_vars


\* block b is an allocated block of the sequence with its p bit clear, after
\* a free block whose footer holds its size and before an allocated block
AfterFree(b) ==
    /\ b \in {Blocks[i] : i \in DOMAIN Blocks}
    /\ Tiles
    /\ IsAlloc(b) /\ ~PrevAlloc(b)
    /\ PrevBlock(b) # NULL /\ IsFree(PrevBlock(b))
    /\ mem[b - 4] = HdrSize(mem[PrevBlock(b)])
    /\ BlockEnd(b) < memoryEnd /\ IsAlloc(BlockEnd(b))

\* C19: releasing an allocated block B whose predecessor P is free adds B's
\* size to the size in P's header, writes the combined size in the footer at
\* the tail of the merged block, and writes no word outside P, B and the
\* header that follows B.
C19_BackwardMerge ==
    [][(/\ FreeStep
        /\ Ready /\ ~halted'
        /\ AfterFree(lastCall'.arg - 4)) =>
         LET b == lastCall'.arg - 4
             S == HdrSize(mem[b])
             P == PrevBlock(b)
             SP == HdrSize(mem[P])
         IN /\ lastCall'.ret = 0
            /\ \A a \in DOMAIN mem : (a < P \/ a > b + S) => mem'[a] = mem[a]
            /\ mem'[P] = mem[P] + S
            /\ mem'[b + S - 4] = SP + S]_vars


\* C20: the block marked allocated by a successful allocate(n) holds its
\* 4-byte header and the n payload bytes that start at the returned address:
\* the payload ends no later than the block does, so it covers no other
\* header and not the end mark.
C20_PayloadInsideBlock ==
    [][(AllocStep /\ ~halted' /\ lastCall'.arg > 0 /\ lastCall'.ret # NULL) =>
         LET freeBlock == lastCall'.ret - 4
             n == lastCall'.arg
         IN /\ Bit0(mem'[freeBlock]) = 1
            /\ HdrSize(mem'[freeBlock]) >= 4 + n
            /\ lastCall'.ret + n <= freeBlock + HdrSize(mem'[freeBlock])]_vars


\* C21: at the start of every allocate call the cursor is the address of the
\* header of a block of the current block sequence, never an address inside
\* a block absorbed by a merge.
C21_CursorIsBlockHeader ==
    [][(/\ AllocStep
        /\ Ready /\ Tiles
        /\ lastCall'.arg > 0 /\ lastCall'.arg <= allocsize) =>
         SearchStart \in {Blocks[i] : i \in DOMAIN Blocks}]_vars

====
